---- MODULE Spec2Model ----
(***************************************************************************)
(* State-machine model of the chunked, asynchronously populated data map   *)
(* of random-rust-simulator-bevy: core/chunks.rs (DataMap, single          *)
(* buffered), core/chunks_double_buf.rs (DataMapDoubleBuffered) and the    *)
(* per-tick systems that drive them (loader, spawn, merge, swap).          *)
(*                                                                         *)
(* The hash maps of the program are unbounded.  The model keeps their      *)
(* restriction to the chunk coordinates of Coords and the tile points of   *)
(* Points: every operation of the program treats each key independently    *)
(* of the others, so the restriction of a run of the program is a run of   *)
(* the model.                                                              *)
(***************************************************************************)
EXTENDS Integers, Sequences, FiniteSets, TLC

VARIABLES
    variant,            \* "single": DataMap, "double": DataMapDoubleBuffered
    loaded_chunks,      \* DataMap.loaded_chunks: ChunkCoords -> DataChunk
    read_buffer,        \* DataMapDoubleBuffered.read_buffer
    write_buffer,       \* DataMapDoubleBuffered.write_buffer
    requested_chunks,   \* set of ChunkCoords
    pending_tasks,      \* ChunkCoords -> Entity
    write_queue,        \* Point -> Item
    tasks,              \* the entity store: Entity -> the ChunkCoords of its ChunkGenTask
    last,               \* observer: the operation that ran last (see Observe)
    written_unloaded,   \* observer: Point -> the value of the last write to the
                        \* point, if that write found the chunk not loaded and
                        \* no merge has loaded the chunk since (else None)
    unswapped,          \* observer: Point -> the value of the last write to the
                        \* point since the last swap_buffers (else None)
    tick,               \* the map systems that ran so far in the current tick,
                        \* in the order they ran (moves under TickSpec only)
    buffer,             \* the Local<LightingBuffers> of run_lights_simulation
                        \* (moves under LightSpec and BufferSpec only)
    texture_world_position,
                        \* the translations of the entities that carry
                        \* OverlayImage, in halves of a world unit
    history             \* observer: what the run so far did to the points and
                        \* coordinates (see NoHistoryYet; moves under
                        \* PipelineSpec, DoubleSpec and StationarySpec only)

vars == <<variant, loaded_chunks, read_buffer, write_buffer, requested_chunks,
          pending_tasks, write_queue, tasks, last, written_unloaded,
          unswapped, tick, buffer, texture_world_position, history>>

---------------------------------------------------------------------------
(* Bounds and constants *)

\* DataMap::new(producer, chunk_dimension_tiles, render_distance_chunks)
chunk_dimension_tiles == 2
render_distance_chunks == 1
\* Items are 0..MaxItem
MaxItem == 1
\* focus entities a loader pass may see
MaxActors == 1
\* entity ids the entity store hands out (freed ids are used again)
NumEntities == 3

TILE_SIZE_IN_UNITS == 16

\* Option::None, for an Option<Item> and an Option<usize>
None == -1

Items == 0 .. MaxItem

Pt(x, y) == [x |-> x, y |-> y]

\* -(2^24) - 1: the first negative integer an f32 cannot hold
FarX == -(2 ^ 24) - 1

\* The tile points the model reads and writes: one with small negative
\* coordinates and one beyond the integers an f32 holds exactly.
Points == {Pt(-1, -1), Pt(FarX, -1)}

\* the points in play for a map variant
PointsOf(v) == IF v = "single" THEN Points ELSE {Pt(-1, -1)}

Entities == 1 .. NumEntities

---------------------------------------------------------------------------
(* Arithmetic of the target *)

\* isize % isize: the remainder has the sign of the dividend
RustRem(a, b) == IF a >= 0 THEN a % b ELSE -((-a) % b)

\* isize::rem_euclid, for b > 0
rem_euclid(a, b) == a % b

RECURSIVE F32Ulp(_)
\* the spacing of the f32 values around the magnitude a
F32Ulp(a) == IF a < 2 ^ 24 THEN 1 ELSE 2 * F32Ulp(a \div 2)

\* `x as f32` for an integer x: round to nearest, ties to even
AsF32(x) ==
    LET a == IF x < 0 THEN -x ELSE x
        u == F32Ulp(a)
        q == a \div u
        r == a % u
        m == IF 2 * r < u THEN q
             ELSE IF 2 * r > u THEN q + 1
             ELSE IF q % 2 = 0 THEN q ELSE q + 1
    IN  IF x < 0 THEN -(m * u) ELSE m * u

\* (a as f32 / b as f32).floor() as isize.  The operands are rounded to f32;
\* for the magnitudes of the model (operands of at most 2^24 once rounded)
\* rounding the f32 quotient does not carry it across an integer, so its
\* floor is the floor of the exact quotient of the rounded operands.
F32FloorDiv(a, b) == AsF32(a) \div AsF32(b)

\* (a as f32 / b as f32).ceil() as isize, for a >= 0
F32CeilDiv(a, b) == -((-AsF32(a)) \div AsF32(b))

\* f32::round of w / TILE_SIZE_IN_UNITS for an integral w: half away from zero
RoundTile(w) ==
    IF w >= 0 THEN (2 * w + TILE_SIZE_IN_UNITS) \div (2 * TILE_SIZE_IN_UNITS)
    ELSE -((2 * (-w) + TILE_SIZE_IN_UNITS) \div (2 * TILE_SIZE_IN_UNITS))

---------------------------------------------------------------------------
(* ChunkCoords *)

from_point(point, dim) ==
    [x |-> F32FloorDiv(point.x, dim), y |-> F32FloorDiv(point.y, dim)]

from_world_pos(pos, chunk_size_units) ==
    [x |-> F32FloorDiv(pos.x, chunk_size_units),
     y |-> F32FloorDiv(pos.y, chunk_size_units)]

to_bottom_left_tile_point(coords, dim) == Pt(coords.x * dim, coords.y * dim)

chunk_size_units == chunk_dimension_tiles * TILE_SIZE_IN_UNITS

\* the chunk coordinates the model keeps for a map variant
CoordsOf(v) ==
    IF v = "single"
    THEN {from_point(p, chunk_dimension_tiles) : p \in Points}
    ELSE {[x |-> -1, y |-> -1], [x |-> 0, y |-> 0]}

Coords == CoordsOf("single") \cup CoordsOf("double")

Tracked(S) == S \cap CoordsOf(variant)

---------------------------------------------------------------------------
(* FlatGrid *)

\* 2^16: a u32 is two halves of this size
Half == 2 ^ 16

\* whether dimension * dimension leaves the u32 range: with overflow checks
\* (debug builds) the multiplication then panics
square_overflows(dim) == dim >= Half

\* dimension * dimension as the u32 multiplication without overflow checks
\* (release builds) gives it: the product modulo 2^32, computed on the
\* halves of dim; the terms stay within the integers of the checker for
\* the dimensions of the model, which exceed 2^16 by little
wrapping_square(dim) ==
    LET dh == dim \div Half
        dl == dim % Half
    IN  ((2 * dh * dl) % Half) * Half + dl * dl

FlatGrid_new(dim, default) ==
    [data |-> [i \in 1 .. wrapping_square(dim) |-> default], dimension |-> dim]

\* a calculate_index that tests x alone
C24_index_unchecked_y(grid, x, y) ==
    IF x < grid.dimension THEN y * grid.dimension + x ELSE None

calculate_index(grid, x, y) ==
    IF x < grid.dimension /\ y < grid.dimension
    THEN y * grid.dimension + x
    ELSE None

get_item(grid, x, y) ==
    LET idx == calculate_index(grid, x, y)
    IN  IF idx = None THEN None ELSE grid.data[idx + 1]

set_item(grid, x, y, item) ==
    LET idx == calculate_index(grid, x, y)
    IN  IF idx = None THEN grid
        ELSE [grid EXCEPT !.data = [@ EXCEPT ![idx + 1] = item]]

set_item_result(grid, x, y) == calculate_index(grid, x, y) # None

\* the cell get_item_mut hands out a reference to
get_item_mut(grid, x, y) ==
    LET idx == calculate_index(grid, x, y)
    IN  IF idx = None THEN None ELSE grid.data[idx + 1]

\* self.data[idx] with idx beyond the vector: the index operation panics
index_faults(grid, x, y) ==
    LET idx == calculate_index(grid, x, y)
    IN  idx # None /\ idx + 1 \notin DOMAIN grid.data

---------------------------------------------------------------------------
(* MapDataProducer: a deterministic producer whose cells depend on the     *)
(* world tile and never equal the default value                            *)

default_value == 0

GenItem(world_tile_x, world_tile_y) ==
    1 + ((world_tile_x + world_tile_y) % MaxItem)

generate_chunk(coords, dim) ==
    [grid |->
        [data |-> [i \in 1 .. dim * dim |->
                      GenItem(coords.x * dim + ((i - 1) % dim),
                              coords.y * dim + ((i - 1) \div dim))],
         dimension |-> dim]]

---------------------------------------------------------------------------
(* Hash map helpers *)

Insert(m, k, v) == (k :> v) @@ m

Remove(m, k) == [j \in DOMAIN m \ {k} |-> m[j]]

Retain(m, keep) == [j \in DOMAIN m \cap keep |-> m[j]]

Empty == <<>>

---------------------------------------------------------------------------
(* Observers *)

\* arg: for get, get_option, read and write the point, for read_rounded the
\* tile point it rounds to, for the merge pass the coordinates it merged, for
\* the spawn pass the requests it dropped because a job was pending, for the
\* evicting loader pass the coordinates it evicted, else None
Observe(op, arg) == [op |-> op, arg |-> arg]

NoWrites == [p \in Points |-> None]

---------------------------------------------------------------------------
(* DataMap (single-buffered): local coordinates, get, get_option, read,    *)
(* write, init                                                             *)

\* ((v % d) + d) % d on isize
local_coord(v, dim) == RustRem(RustRem(v, dim) + dim, dim)

\* the cell of a loaded chunk at a point, or None when the grid rejects the
\* local coordinates
chunk_item(chunk, point) ==
    get_item(chunk.grid,
             local_coord(point.x, chunk_dimension_tiles),
             local_coord(point.y, chunk_dimension_tiles))

\* the value DataMap::get_option returns
get_option_value(point) ==
    IF point \in DOMAIN write_queue THEN write_queue[point]
    ELSE LET chunk_coords == from_point(point, chunk_dimension_tiles)
         IN  IF chunk_coords \in DOMAIN loaded_chunks
             THEN chunk_item(loaded_chunks[chunk_coords], point)
             ELSE None

\* a get that answers a miss as get_option does
C7_get_value_absent(point) == get_option_value(point)

\* the value DataMap::get returns
get_value(point) ==
    IF point \in DOMAIN write_queue THEN write_queue[point]
    ELSE LET chunk_coords == from_point(point, chunk_dimension_tiles)
         IN  IF chunk_coords \in DOMAIN loaded_chunks
             THEN LET item == chunk_item(loaded_chunks[chunk_coords], point)
                  IN  IF item = None THEN default_value ELSE item
             ELSE default_value

\* a read that does not look at the write queue
C26_read_ignores_queue(point) ==
    LET chunk_coords == from_point(point, chunk_dimension_tiles)
    IN  IF chunk_coords \in DOMAIN loaded_chunks
        THEN chunk_item(loaded_chunks[chunk_coords], point)
        ELSE None

\* the value DataMap::read returns
read_value(point) ==
    IF point \in DOMAIN write_queue THEN write_queue[point]
    ELSE LET chunk_coords == from_point(point, chunk_dimension_tiles)
         IN  IF chunk_coords \in DOMAIN loaded_chunks
             THEN chunk_item(loaded_chunks[chunk_coords], point)
             ELSE None

\* a miss that requests nothing
C8_get_no_request(point) == requested_chunks

\* requested_chunks after get or get_option
get_requested(point) ==
    IF point \in DOMAIN write_queue THEN requested_chunks
    ELSE LET chunk_coords == from_point(point, chunk_dimension_tiles)
         IN  IF chunk_coords \in DOMAIN loaded_chunks
             THEN requested_chunks
             ELSE requested_chunks \cup Tracked({chunk_coords})

get(point) ==
    /\ variant = "single"
    /\ requested_chunks' = get_requested(point)
    /\ last' = Observe("get", point)
    /\ UNCHANGED <<variant, loaded_chunks, read_buffer, write_buffer,
                   pending_tasks, write_queue, tasks, written_unloaded,
                   unswapped>>

get_option(point) ==
    /\ variant = "single"
    /\ requested_chunks' = get_requested(point)
    /\ last' = Observe("get_option", point)
    /\ UNCHANGED <<variant, loaded_chunks, read_buffer, write_buffer,
                   pending_tasks, write_queue, tasks, written_unloaded,
                   unswapped>>

\* a read that requests the chunks it looks at
C9_read_requests ==
    /\ requested_chunks' = requested_chunks \cup CoordsOf(variant)
    /\ UNCHANGED <<variant, loaded_chunks, read_buffer, write_buffer,
                   pending_tasks, write_queue, tasks, written_unloaded,
                   unswapped>>

\* what read leaves of the map: &self, nothing is assigned
read_frame ==
    UNCHANGED <<variant, loaded_chunks, read_buffer, write_buffer,
                requested_chunks, pending_tasks, write_queue, tasks,
                written_unloaded,
                   unswapped>>

read(point) ==
    /\ variant = "single"
    /\ last' = Observe("read", point)
    /\ read_frame

\* the tile point read_rounded, get_rounded and get_rounded_option look up
rounded_point(world_pos) == Pt(RoundTile(world_pos.x), RoundTile(world_pos.y))

read_rounded(world_pos) ==
    /\ variant = "single"
    /\ last' = Observe("read_rounded", rounded_point(world_pos))
    /\ read_frame

\* loaded_chunks after write
write_loaded(point, value) ==
    LET chunk_coords == from_point(point, chunk_dimension_tiles)
    IN  IF chunk_coords \in DOMAIN loaded_chunks
        THEN [loaded_chunks EXCEPT ![chunk_coords].grid =
                 set_item(@, local_coord(point.x, chunk_dimension_tiles),
                             local_coord(point.y, chunk_dimension_tiles), value)]
        ELSE loaded_chunks

\* write_queue after write
write_queued(point, value) ==
    IF from_point(point, chunk_dimension_tiles) \in DOMAIN loaded_chunks
    THEN Remove(write_queue, point)
    ELSE Insert(write_queue, point, value)

\* requested_chunks after write
write_requested(point) ==
    LET chunk_coords == from_point(point, chunk_dimension_tiles)
    IN  IF chunk_coords \in DOMAIN loaded_chunks
        THEN requested_chunks
        ELSE requested_chunks \cup Tracked({chunk_coords})

write(point, value) ==
    /\ variant = "single"
    /\ loaded_chunks' = write_loaded(point, value)
    /\ write_queue' = write_queued(point, value)
    /\ requested_chunks' = write_requested(point)
    /\ written_unloaded' =
          [written_unloaded EXCEPT ![point] =
              IF from_point(point, chunk_dimension_tiles) \in DOMAIN loaded_chunks
              THEN None ELSE value]
    /\ last' = Observe("write", point)
    /\ UNCHANGED <<variant, read_buffer, write_buffer, pending_tasks, tasks,
                   unswapped>>

\* an init that converts the tile radius by floor division
C21_init_square_floor(manhattan_distance_tiles) ==
    LET chunk_manhattan_distance ==
            F32FloorDiv(manhattan_distance_tiles, chunk_dimension_tiles)
    IN  {c \in Coords :
            /\ -chunk_manhattan_distance <= c.x /\ c.x <= chunk_manhattan_distance
            /\ -chunk_manhattan_distance <= c.y /\ c.y <= chunk_manhattan_distance}

\* the chunk coordinates init walks: |x|, |y| <= ceil(n / dimension)
init_square(manhattan_distance_tiles) ==
    LET chunk_manhattan_distance ==
            F32CeilDiv(manhattan_distance_tiles, chunk_dimension_tiles)
    IN  {c \in Coords :
            /\ -chunk_manhattan_distance <= c.x /\ c.x <= chunk_manhattan_distance
            /\ -chunk_manhattan_distance <= c.y /\ c.y <= chunk_manhattan_distance}

\* requested_chunks after init
init_requested(manhattan_distance_tiles) ==
    requested_chunks \cup
        {c \in init_square(manhattan_distance_tiles) :
            c \notin DOMAIN loaded_chunks /\ c \notin DOMAIN pending_tasks}

init(manhattan_distance_tiles) ==
    /\ variant = "single"
    /\ requested_chunks' = init_requested(manhattan_distance_tiles)
    /\ last' = Observe("init", None)
    /\ UNCHANGED <<variant, loaded_chunks, read_buffer, write_buffer,
                   pending_tasks, write_queue, tasks, written_unloaded,
                   unswapped>>

---------------------------------------------------------------------------
(* Focus-driven loader passes of the single-buffered map                   *)

\* world positions of the focus entities: the focus chunk is (-1,-1), then
\* (r,r), then (r+1,r+1), r the render distance
FocusPositions ==
    {Pt(-1, -1),
     Pt(render_distance_chunks * chunk_size_units,
        render_distance_chunks * chunk_size_units),
     Pt((render_distance_chunks + 1) * chunk_size_units,
        (render_distance_chunks + 1) * chunk_size_units)}

\* what a loader's query may iterate over: the focuses, in iteration order
FocusLists ==
    UNION {[1 .. n -> FocusPositions] : n \in 0 .. MaxActors}

\* the square of chunk coordinates around the focus chunk
required_chunks_set(focus_world_pos) ==
    LET current_focus_chunk_coords ==
            from_world_pos(focus_world_pos, chunk_size_units)
    IN  Tracked({[x |-> current_focus_chunk_coords.x + dx,
                  y |-> current_focus_chunk_coords.y + dy] :
                    dx \in -render_distance_chunks .. render_distance_chunks,
                    dy \in -render_distance_chunks .. render_distance_chunks})

\* "Request new chunks": requested_chunks after the request loop of a loader
request_new(required, chunks, requested) ==
    requested \cup
        {c \in required : /\ c \notin DOMAIN chunks
                          /\ c \notin DOMAIN pending_tasks
                          /\ c \notin requested}

RECURSIVE load_unload_requested(_, _)
\* requested_chunks after data_map_load_unload_system saw the focuses
load_unload_requested(focuses, requested) ==
    IF focuses = <<>> THEN requested
    ELSE load_unload_requested(
            Tail(focuses),
            request_new(required_chunks_set(Head(focuses)), loaded_chunks,
                        requested))

\* an evicting loader that requests and keeps every loaded chunk
C14_load_unload_keeps(focuses, chunks, requested) ==
    [chunks |-> chunks,
     requested |-> load_unload_requested(focuses, requested)]

RECURSIVE load_unload_evicting(_, _, _)
\* [chunks, requested] after an evicting loader saw the focuses: each focus
\* retains its required set and then requests what is missing
load_unload_evicting(focuses, chunks, requested) ==
    IF focuses = <<>> THEN [chunks |-> chunks, requested |-> requested]
    ELSE LET required == required_chunks_set(Head(focuses))
             kept == Retain(chunks, required)
         IN  load_unload_evicting(Tail(focuses), kept,
                                  request_new(required, kept, requested))

\* a shared-reveal loader with the retain of the per-actor loader
C15_loader_retains(focuses) ==
    /\ variant = "single"
    /\ LET after == load_unload_evicting(focuses, loaded_chunks, requested_chunks)
       IN  /\ loaded_chunks' = after.chunks
           /\ requested_chunks' = after.requested
    /\ last' = Observe("load_unload", None)
    /\ UNCHANGED <<variant, read_buffer, write_buffer, pending_tasks,
                   write_queue, tasks, written_unloaded, unswapped>>

\* the shared-reveal loader (MapRevealActor): requests, never evicts
data_map_load_unload_system(focuses) ==
    /\ variant = "single"
    /\ requested_chunks' = load_unload_requested(focuses, requested_chunks)
    /\ last' = Observe("load_unload", None)
    /\ UNCHANGED <<variant, loaded_chunks, read_buffer, write_buffer,
                   pending_tasks, write_queue, tasks, written_unloaded,
                   unswapped>>

\* the per-actor loader (Player): evicts and requests
data_map_load_unload_system_for_player(focuses) ==
    /\ variant = "single"
    /\ LET after == load_unload_evicting(focuses, loaded_chunks, requested_chunks)
       IN  /\ loaded_chunks' = after.chunks
           /\ requested_chunks' = after.requested
           /\ last' = Observe("load_unload_for_player",
                              DOMAIN loaded_chunks \ DOMAIN after.chunks)
    /\ UNCHANGED <<variant, read_buffer, write_buffer, pending_tasks,
                   write_queue, tasks, written_unloaded,
                   unswapped>>

---------------------------------------------------------------------------
(* Generation task pipeline: spawn pass, the worker, merge pass            *)

\* the in-flight jobs of a coordinate: the entities carrying a ChunkGenTask
\* for it
jobs_for(coords) == {e \in DOMAIN tasks : tasks[e] = coords}

\* a spawn pass that also starts a job for every coordinate that is not
\* loaded, requested or not
C13_spawn_set_unrequested ==
    {c \in CoordsOf(variant) : c \notin DOMAIN pending_tasks
                               /\ c \notin DOMAIN loaded_chunks}

\* a spawn pass that does not look at pending_tasks
C2_spawn_set_unchecked == requested_chunks

\* the coordinates the spawn pass starts a job for
spawn_set == {c \in requested_chunks : c \notin DOMAIN pending_tasks}

\* The entity id commands.spawn hands out.  The allocator is the engine's and
\* the program never inspects an id, so the model fixes one policy: the id
\* reserved for the coordinate when it is free, else the lowest spare id.
reserved_entity(coords) ==
    Cardinality({c \in CoordsOf(variant) :
        c.x < coords.x \/ (c.x = coords.x /\ c.y <= coords.y)})

fresh_entity(store, coords) ==
    IF reserved_entity(coords) \notin DOMAIN store
    THEN reserved_entity(coords)
    ELSE CHOOSE e \in Entities \ DOMAIN store :
            /\ e > Cardinality(CoordsOf(variant))
            /\ \A f \in Entities \ DOMAIN store :
                  f > Cardinality(CoordsOf(variant)) => e <= f

\* whether the entity store still has an id for each job of S
can_spawn(S, store) ==
    Cardinality({c \in S : reserved_entity(c) \in DOMAIN store})
        <= Cardinality({e \in Entities \ DOMAIN store :
                            e > Cardinality(CoordsOf(variant))})

RECURSIVE spawn_tasks(_, _, _)
\* [tasks, pending] after a job was spawned for every coordinate of S
spawn_tasks(S, store, pending) ==
    IF S = {} THEN [tasks |-> store, pending |-> pending]
    ELSE LET current_coords == CHOOSE c \in S : TRUE
             task_entity == fresh_entity(store, current_coords)
         IN  spawn_tasks(S \ {current_coords},
                         Insert(store, task_entity, current_coords),
                         Insert(pending, current_coords, task_entity))

\* a spawn pass that does not clear requested_chunks
C22_spawn_keeps_requests ==
    /\ can_spawn(spawn_set, tasks)
    /\ LET after == spawn_tasks(spawn_set, tasks, pending_tasks)
       IN  /\ tasks' = after.tasks
           /\ pending_tasks' = after.pending
    /\ last' = Observe("spawn", requested_chunks \cap DOMAIN pending_tasks)
    /\ UNCHANGED <<variant, loaded_chunks, read_buffer, write_buffer,
                   requested_chunks, write_queue, written_unloaded, unswapped>>

data_map_spawn_tasks_system ==
    /\ can_spawn(spawn_set, tasks)
    /\ LET after == spawn_tasks(spawn_set, tasks, pending_tasks)
       IN  /\ tasks' = after.tasks
           /\ pending_tasks' = after.pending
    /\ requested_chunks' = {}
    /\ last' = Observe("spawn", requested_chunks \cap DOMAIN pending_tasks)
    /\ UNCHANGED <<variant, loaded_chunks, read_buffer, write_buffer,
                   write_queue, written_unloaded,
                   unswapped>>

\* what poll_once may find finished: any of the jobs in flight (the workers
\* of the AsyncComputeTaskPool run generate_chunk at their own pace)
CompletedSets == SUBSET DOMAIN tasks

\* the tile bounding box test of the write-queue flush
in_chunk_box(point, coords) ==
    LET chunk_bottom_left_tile ==
            to_bottom_left_tile_point(coords, chunk_dimension_tiles)
    IN  /\ point.x >= chunk_bottom_left_tile.x
        /\ point.x < chunk_bottom_left_tile.x + chunk_dimension_tiles
        /\ point.y >= chunk_bottom_left_tile.y
        /\ point.y < chunk_bottom_left_tile.y + chunk_dimension_tiles

\* the write_queue points the merge of a chunk applies and removes
flushed_points(queue, coords) ==
    {p \in DOMAIN queue : in_chunk_box(p, coords)}

\* a flush that drops the queued writes instead of applying them
C3_apply_no_writes(chunk, pts, queue) == chunk

RECURSIVE apply_writes(_, _, _)
\* the chunk after set_item for every point of pts (single-buffered formula)
apply_writes(chunk, pts, queue) ==
    IF pts = {} THEN chunk
    ELSE LET point == CHOOSE p \in pts : TRUE
         IN  apply_writes(
                [chunk EXCEPT !.grid =
                    set_item(@, local_coord(point.x, chunk_dimension_tiles),
                                local_coord(point.y, chunk_dimension_tiles),
                                queue[point])],
                pts \ {point}, queue)

\* a merge pass that throws the completed chunks away
C10_merge_drops(E, chunks, queue) == [chunks |-> chunks, queue |-> queue]

RECURSIVE merge_completed(_, _, _)
\* [chunks, queue] after the completed chunks of the entities E were merged.
\* The query's iteration order is the engine's; the model merges by ascending
\* entity id.  The order shows only when two merged jobs have one coordinate.
merge_completed(E, chunks, queue) ==
    IF E = {} THEN [chunks |-> chunks, queue |-> queue]
    ELSE LET e == CHOOSE e \in E : \A f \in E : e <= f
             coords == tasks[e]
             pts == flushed_points(queue, coords)
             chunk == apply_writes(generate_chunk(coords, chunk_dimension_tiles),
                                   pts, queue)
         IN  merge_completed(E \ {e}, Insert(chunks, coords, chunk),
                             [p \in DOMAIN queue \ pts |-> queue[p]])

\* a merge pass that forgets every job, finished or not
C16_pending_dropped(completed_tasks) == Empty

\* pending_tasks after the completed jobs were removed by coordinate
pending_after_merge(completed_tasks) ==
    [c \in DOMAIN pending_tasks \ {tasks[e] : e \in completed_tasks}
        |-> pending_tasks[c]]

data_map_process_completed_tasks_system(completed_tasks) ==
    /\ variant = "single"
    /\ LET after == merge_completed(completed_tasks, loaded_chunks, write_queue)
       IN  /\ loaded_chunks' = after.chunks
           /\ write_queue' = after.queue
           /\ written_unloaded' =
                 [p \in Points |->
                     IF /\ from_point(p, chunk_dimension_tiles)
                              \in DOMAIN after.chunks
                        /\ from_point(p, chunk_dimension_tiles)
                              \notin DOMAIN loaded_chunks
                     THEN None ELSE written_unloaded[p]]
    /\ pending_tasks' = pending_after_merge(completed_tasks)
    /\ tasks' = [e \in DOMAIN tasks \ completed_tasks |-> tasks[e]]
    /\ last' = Observe("merge", {tasks[e] : e \in completed_tasks})
    /\ UNCHANGED <<variant, read_buffer, write_buffer, requested_chunks,
                   unswapped>>

---------------------------------------------------------------------------
(* DataMapDoubleBuffered: reads look at read_buffer, writes, the loader    *)
(* and the merge at write_buffer                                           *)

\* the cell of a chunk at a point, local coordinates by rem_euclid
db_chunk_item(chunk, point) ==
    get_item(chunk.grid,
             rem_euclid(point.x, chunk_dimension_tiles),
             rem_euclid(point.y, chunk_dimension_tiles))

\* the value DataMapDoubleBuffered::get returns
db_get_value(point) ==
    IF point \in DOMAIN write_queue THEN write_queue[point]
    ELSE LET chunk_coords == from_point(point, chunk_dimension_tiles)
         IN  IF chunk_coords \in DOMAIN read_buffer
             THEN LET item == db_chunk_item(read_buffer[chunk_coords], point)
                  IN  IF item = None THEN default_value ELSE item
             ELSE default_value

\* the value DataMapDoubleBuffered::get_option returns
db_get_option_value(point) ==
    IF point \in DOMAIN write_queue THEN write_queue[point]
    ELSE LET chunk_coords == from_point(point, chunk_dimension_tiles)
         IN  IF chunk_coords \in DOMAIN read_buffer
             THEN db_chunk_item(read_buffer[chunk_coords], point)
             ELSE None

\* a read that looks at read_buffer before the write queue
C18_db_read_buffer_first(point) ==
    LET chunk_coords == from_point(point, chunk_dimension_tiles)
    IN  IF chunk_coords \in DOMAIN read_buffer
        THEN db_chunk_item(read_buffer[chunk_coords], point)
        ELSE IF point \in DOMAIN write_queue THEN write_queue[point]
             ELSE None

\* the value DataMapDoubleBuffered::read returns
db_read_value(point) ==
    IF point \in DOMAIN write_queue THEN write_queue[point]
    ELSE LET chunk_coords == from_point(point, chunk_dimension_tiles)
         IN  IF chunk_coords \in DOMAIN read_buffer
             THEN db_chunk_item(read_buffer[chunk_coords], point)
             ELSE None

\* requested_chunks after get or get_option of the double-buffered map
db_get_requested(point) ==
    IF point \in DOMAIN write_queue THEN requested_chunks
    ELSE LET chunk_coords == from_point(point, chunk_dimension_tiles)
         IN  IF chunk_coords \in DOMAIN read_buffer
             THEN requested_chunks
             ELSE requested_chunks \cup Tracked({chunk_coords})

db_get(point) ==
    /\ variant = "double"
    /\ requested_chunks' = db_get_requested(point)
    /\ last' = Observe("get", point)
    /\ UNCHANGED <<variant, loaded_chunks, read_buffer, write_buffer,
                   pending_tasks, write_queue, tasks, written_unloaded,
                   unswapped>>

db_get_option(point) ==
    /\ variant = "double"
    /\ requested_chunks' = db_get_requested(point)
    /\ last' = Observe("get_option", point)
    /\ UNCHANGED <<variant, loaded_chunks, read_buffer, write_buffer,
                   pending_tasks, write_queue, tasks, written_unloaded,
                   unswapped>>

\* what the double-buffered read leaves of the map: &self
db_read_frame ==
    UNCHANGED <<variant, loaded_chunks, read_buffer, write_buffer,
                requested_chunks, pending_tasks, write_queue, tasks,
                written_unloaded,
                   unswapped>>

db_read(point) ==
    /\ variant = "double"
    /\ last' = Observe("read", point)
    /\ db_read_frame

db_read_rounded(world_pos) ==
    /\ variant = "double"
    /\ last' = Observe("read_rounded", rounded_point(world_pos))
    /\ db_read_frame

\* write_buffer after write
db_write_buffer(point, value) ==
    LET chunk_coords == from_point(point, chunk_dimension_tiles)
    IN  IF chunk_coords \in DOMAIN write_buffer
        THEN [write_buffer EXCEPT ![chunk_coords].grid =
                 set_item(@, rem_euclid(point.x, chunk_dimension_tiles),
                             rem_euclid(point.y, chunk_dimension_tiles), value)]
        ELSE write_buffer

\* write_queue after write
db_write_queued(point, value) ==
    IF from_point(point, chunk_dimension_tiles) \in DOMAIN write_buffer
    THEN Remove(write_queue, point)
    ELSE Insert(write_queue, point, value)

\* requested_chunks after write
db_write_requested(point) ==
    LET chunk_coords == from_point(point, chunk_dimension_tiles)
    IN  IF chunk_coords \in DOMAIN write_buffer
        THEN requested_chunks
        ELSE requested_chunks \cup Tracked({chunk_coords})

db_write(point, value) ==
    /\ variant = "double"
    /\ write_buffer' = db_write_buffer(point, value)
    /\ write_queue' = db_write_queued(point, value)
    /\ requested_chunks' = db_write_requested(point)
    /\ unswapped' = [unswapped EXCEPT ![point] = value]
    /\ last' = Observe("write", point)
    /\ UNCHANGED <<variant, loaded_chunks, read_buffer, pending_tasks, tasks,
                   written_unloaded>>

\* requested_chunks after init of the double-buffered map
db_init_requested(manhattan_distance_tiles) ==
    requested_chunks \cup
        {c \in init_square(manhattan_distance_tiles) :
            /\ c \notin DOMAIN read_buffer
            /\ c \notin DOMAIN write_buffer
            /\ c \notin DOMAIN pending_tasks}

db_init(manhattan_distance_tiles) ==
    /\ variant = "double"
    /\ requested_chunks' = db_init_requested(manhattan_distance_tiles)
    /\ last' = Observe("init", None)
    /\ UNCHANGED <<variant, loaded_chunks, read_buffer, write_buffer,
                   pending_tasks, write_queue, tasks, written_unloaded,
                   unswapped>>

\* a swap that copies write_buffer over read_buffer
C23_swap_copies ==
    /\ variant = "double"
    /\ read_buffer' = write_buffer
    /\ write_buffer' = write_buffer
    /\ unswapped' = NoWrites
    /\ last' = Observe("swap_buffers", None)
    /\ UNCHANGED <<variant, loaded_chunks, requested_chunks, pending_tasks,
                   write_queue, tasks, written_unloaded>>

swap_buffers ==
    /\ variant = "double"
    /\ read_buffer' = write_buffer
    /\ write_buffer' = read_buffer
    /\ unswapped' = NoWrites
    /\ last' = Observe("swap_buffers", None)
    /\ UNCHANGED <<variant, loaded_chunks, requested_chunks, pending_tasks,
                   write_queue, tasks, written_unloaded>>

\* a loader pass that trims read_buffer instead of write_buffer
C11_loader_trims_read(focuses) ==
    /\ variant = "double"
    /\ LET after == load_unload_evicting(focuses, read_buffer, requested_chunks)
       IN  /\ read_buffer' = after.chunks
           /\ requested_chunks' = after.requested
    /\ last' = Observe("load_unload", None)
    /\ UNCHANGED <<variant, loaded_chunks, write_buffer, pending_tasks,
                   write_queue, tasks, written_unloaded,
                   unswapped>>

\* the loader of the double-buffered map: trims write_buffer and requests
data_map_db_load_unload_system(focuses) ==
    /\ variant = "double"
    /\ LET after == load_unload_evicting(focuses, write_buffer, requested_chunks)
       IN  /\ write_buffer' = after.chunks
           /\ requested_chunks' = after.requested
    /\ last' = Observe("load_unload", None)
    /\ UNCHANGED <<variant, loaded_chunks, read_buffer, pending_tasks,
                   write_queue, tasks, written_unloaded,
                   unswapped>>

RECURSIVE db_apply_writes(_, _, _)
\* the generated chunk after set_item for every point of pts (rem_euclid)
db_apply_writes(chunk, pts, queue) ==
    IF pts = {} THEN chunk
    ELSE LET point == CHOOSE p \in pts : TRUE
         IN  db_apply_writes(
                [chunk EXCEPT !.grid =
                    set_item(@, rem_euclid(point.x, chunk_dimension_tiles),
                                rem_euclid(point.y, chunk_dimension_tiles),
                                queue[point])],
                pts \ {point}, queue)

RECURSIVE db_merge_completed(_, _, _)
\* [chunks, queue] after the completed chunks of the entities E were merged
\* into write_buffer, in query order
db_merge_completed(E, chunks, queue) ==
    IF E = {} THEN [chunks |-> chunks, queue |-> queue]
    ELSE LET e == CHOOSE e \in E : \A f \in E : e <= f
             coords == tasks[e]
             pts == flushed_points(queue, coords)
             generated_chunk ==
                 db_apply_writes(generate_chunk(coords, chunk_dimension_tiles),
                                 pts, queue)
         IN  db_merge_completed(E \ {e}, Insert(chunks, coords, generated_chunk),
                                [p \in DOMAIN queue \ pts |-> queue[p]])

db_process_completed_tasks_system(completed_tasks) ==
    /\ variant = "double"
    /\ LET after == db_merge_completed(completed_tasks, write_buffer, write_queue)
       IN  /\ write_buffer' = after.chunks
           /\ write_queue' = after.queue
    /\ pending_tasks' = pending_after_merge(completed_tasks)
    /\ tasks' = [e \in DOMAIN tasks \ completed_tasks |-> tasks[e]]
    /\ last' = Observe("merge", {tasks[e] : e \in completed_tasks})
    /\ UNCHANGED <<variant, loaded_chunks, read_buffer, requested_chunks,
                   written_unloaded,
                   unswapped>>

---------------------------------------------------------------------------
(* Inputs, initial state, next-state relation                              *)

(* The light simulator: LightingBuffers and run_lights_simulation, which   *)
(* reads the lights map, a DataMap (single-buffered) whose items are       *)
(* LightEmitterCell values                                                 *)

TILE_SIZE_IN_UNITS_UNITS == 16

\* the side of the simulated window in tiles (32 in the program)
LIGHTING_OVERLAY_TILES == 2

\* Direction as usize: N, NE, E, SE, S, SW, W, NW
Directions == 0 .. 7

\* [0.0; 3]
dark == <<0, 0, 0>>

\* the indices [x][y] of a Vec<Vec<_>> of write_size rows of write_size cells
WindowCells(write_size) == (0 .. write_size - 1) \X (0 .. write_size - 1)

blank_tile(write_size) == [c \in WindowCells(write_size) |-> dark]

\* Default for LightingBuffers: eight empty vectors each way
LightingBuffers_default ==
    [read |-> [d \in Directions |-> blank_tile(0)],
     write |-> [d \in Directions |-> blank_tile(0)],
     initialized |-> FALSE]

\* LightingBuffers::init
LightingBuffers_init(write_size) ==
    [read |-> [d \in Directions |-> blank_tile(write_size)],
     write |-> [d \in Directions |-> blank_tile(write_size)],
     initialized |-> TRUE]

\* a swap that clears nothing
C29_swap_keeps_write(buf) ==
    [read |-> buf.write, write |-> buf.read, initialized |-> buf.initialized]

\* LightingBuffers::swap_buffers_clear_write: mem::swap, then every cell of
\* what is now the write side is overwritten in place
swap_buffers_clear_write(buf) ==
    [read |-> buf.write,
     write |-> [d \in Directions |-> [c \in DOMAIN buf.read[d] |-> dark]],
     initialized |-> buf.initialized]

\* a / b on isize: the quotient is truncated toward zero
RustDiv(a, b) == IF a >= 0 THEN a \div b ELSE -((-a) \div b)

\* f32 as isize, of a translation counted in halves of a unit: the fraction
\* is dropped, toward zero
as_isize(halves) == RustDiv(halves, 2)

center_tile(position) ==
    Pt(RustDiv(as_isize(position.x), TILE_SIZE_IN_UNITS_UNITS),
       RustDiv(as_isize(position.y), TILE_SIZE_IN_UNITS_UNITS))

half_tiles == LIGHTING_OVERLAY_TILES \div 2

top_left(position) ==
    Pt(center_tile(position).x - half_tiles,
       center_tile(position).y - half_tiles)

\* the tile behind the window cell [x][y]
tile_position(position, c) ==
    Pt(top_left(position).x + c[1], top_left(position).y + c[2])

\* Option::unwrap_or_default on what read returns
unwrap_or_default(value) == IF value = None THEN default_value ELSE value

\* LightEmitterCell.undirected_lights of an item, an Option given as a set
\* of at most one props.color: the default cell holds no emitter, the item
\* i > 0 holds the emitter whose props.color is [i, i, i]
undirected_lights(cell) ==
    IF cell = default_value THEN {} ELSE {<<cell, cell, cell>>}

\* center_tile_lightdata of the window cell [x][y]
center_tile_lightdata(position, c) ==
    undirected_lights(unwrap_or_default(read_value(tile_position(position, c))))

\* a window scan that looks the cells up with get, which requests the chunk
\* of a cell it misses
C27_scan_requests(position) ==
    /\ requested_chunks' =
          requested_chunks \cup
             Tracked({from_point(tile_position(position, c),
                                 chunk_dimension_tiles) :
                         c \in {w \in WindowCells(LIGHTING_OVERLAY_TILES) :
                                   read_value(tile_position(position, w))
                                      = None}})
    /\ UNCHANGED <<variant, loaded_chunks, read_buffer, write_buffer,
                   pending_tasks, write_queue, tasks, written_unloaded,
                   unswapped>>

\* what the window scan does to the lights map: one DataMap::read per cell,
\* through a Res (shared) borrow
window_scan(position) == read_frame

\* the only translation the query matches, as Query::single gives it
single(matches) == CHOOSE t \in matches : TRUE

\* the system run_lights_simulation; the deposit into buffer.write is
\* commented out in the scan, and the image calls are left out
run_lights_simulation ==
    /\ variant = "single"
    /\ LET ready == IF buffer.initialized THEN buffer
                    ELSE LightingBuffers_init(LIGHTING_OVERLAY_TILES)
       IN  IF Cardinality(texture_world_position) = 1
           THEN LET position == single(texture_world_position)
                IN  /\ window_scan(position)
                    /\ buffer' = swap_buffers_clear_write(ready)
                    /\ last' = Observe("run_lights_simulation",
                                       [position |-> position,
                                        center_tile |-> center_tile(position),
                                        top_left |-> top_left(position)])
           ELSE /\ buffer' = ready
                /\ last' = Observe("run_lights_simulation_no_overlay", None)
                /\ UNCHANGED <<variant, loaded_chunks, read_buffer,
                               write_buffer, requested_chunks, pending_tasks,
                               write_queue, tasks, written_unloaded,
                               unswapped>>
    /\ UNCHANGED texture_world_position

\* setup_overlay at Startup: one entity with OverlayImage at the origin
setup_overlay ==
    /\ texture_world_position = {}
    /\ texture_world_position' = {Pt(0, 0)}
    /\ last' = Observe("setup_overlay", None)
    /\ UNCHANGED <<variant, loaded_chunks, read_buffer, write_buffer,
                   requested_chunks, pending_tasks, write_queue, tasks,
                   written_unloaded, unswapped, buffer>>

\* overlay_texture_follow_camera: every overlay transform is moved to the
\* target position
overlay_texture_follow_camera(target_position) ==
    /\ texture_world_position # {}
    /\ texture_world_position' = {target_position}
    /\ last' = Observe("overlay_texture_follow_camera", target_position)
    /\ UNCHANGED <<variant, loaded_chunks, read_buffer, write_buffer,
                   requested_chunks, pending_tasks, write_queue, tasks,
                   written_unloaded, unswapped, buffer>>

---------------------------------------------------------------------------

\* init radii in tiles: chunk radius 0, 1 and 2
InitRadii == {0, 1, chunk_dimension_tiles + 1}

\* world positions read_rounded is called with; they round to the tiles
\* (-1,-1), (-2,-1) and (-1,-2) of the chunk (-1,-1)
WorldPositions == {Pt(-8, -8), Pt(-24, -9), Pt(-20, -30)}

\* the history observer of a new map:
\*   written[p]  the value of the last write to the point p, if that write
\*               found the chunk of p in loaded_chunks (in write_buffer for
\*               the double-buffered map), else None
\*   swapped[p]  whether swap_buffers ran since that write
\*   start_read  the coordinates read_buffer held when the current tick began
\*   spawned[c]  the number of generation jobs spawned for c so far
NoHistoryYet ==
    [written |-> [p \in Points |-> None],
     swapped |-> [p \in Points |-> FALSE],
     start_read |-> {},
     spawned |-> [c \in Coords |-> 0]]

Init ==
    /\ variant \in {"single", "double"}
    /\ loaded_chunks = Empty
    /\ read_buffer = Empty
    /\ write_buffer = Empty
    /\ requested_chunks = {}
    /\ pending_tasks = Empty
    /\ write_queue = Empty
    /\ tasks = Empty
    /\ last = Observe("new", None)
    /\ written_unloaded = NoWrites
    /\ unswapped = NoWrites
    /\ tick = <<>>
    /\ buffer = LightingBuffers_default
    /\ texture_world_position = {}
    /\ history = NoHistoryYet

\* an operation of the map is no step of the tick schedule
NoTick == UNCHANGED tick

\* an operation of the map leaves the light simulator's state alone
NoLight == UNCHANGED <<buffer, texture_world_position>>

\* a step that is not followed by the history observer
NoHistory == UNCHANGED history

SingleNext ==
    \/ \E p \in PointsOf(variant) : get(p) /\ NoTick /\ NoHistory /\ NoLight
    \/ \E p \in PointsOf(variant) : get_option(p) /\ NoTick /\ NoHistory /\ NoLight
    \/ \E p \in PointsOf(variant) : read(p) /\ NoTick /\ NoHistory /\ NoLight
    \/ \E w \in WorldPositions : read_rounded(w) /\ NoTick /\ NoHistory /\ NoLight
    \/ \E p \in PointsOf(variant), v \in Items : write(p, v) /\ NoTick /\ NoHistory /\ NoLight
    \/ \E n \in InitRadii : init(n) /\ NoTick /\ NoHistory /\ NoLight
    \/ \E fs \in FocusLists : data_map_load_unload_system(fs) /\ NoTick /\ NoHistory /\ NoLight
    \/ \E fs \in FocusLists :
          data_map_load_unload_system_for_player(fs) /\ NoTick /\ NoHistory /\ NoLight
    \/ \E done \in CompletedSets :
          data_map_process_completed_tasks_system(done) /\ NoTick /\ NoHistory /\ NoLight

DoubleNext ==
    \/ \E p \in PointsOf(variant) : db_get(p) /\ NoTick /\ NoHistory /\ NoLight
    \/ \E p \in PointsOf(variant) : db_get_option(p) /\ NoTick /\ NoHistory /\ NoLight
    \/ \E p \in PointsOf(variant) : db_read(p) /\ NoTick /\ NoHistory /\ NoLight
    \/ \E w \in WorldPositions : db_read_rounded(w) /\ NoTick /\ NoHistory /\ NoLight
    \/ \E p \in PointsOf(variant), v \in Items : db_write(p, v) /\ NoTick /\ NoHistory /\ NoLight
    \/ \E n \in InitRadii : db_init(n) /\ NoTick /\ NoHistory /\ NoLight
    \/ \E fs \in FocusLists : data_map_db_load_unload_system(fs) /\ NoTick /\ NoHistory /\ NoLight
    \/ \E done \in CompletedSets :
          db_process_completed_tasks_system(done) /\ NoTick /\ NoHistory /\ NoLight
    \/ swap_buffers /\ NoTick /\ NoHistory /\ NoLight

Next == SingleNext \/ DoubleNext \/ (data_map_spawn_tasks_system /\ NoTick /\ NoHistory /\ NoLight)

Spec == Init /\ [][Next]_vars

\* The single-buffered map behind the shared-reveal loader, which never
\* evicts, with the scheduling of the program: the spawn pass and the merge
\* pass are systems of the Update schedule and run every tick, and the
\* AsyncComputeTaskPool finishes every job it is given.
LiveInit == Init /\ variant = "single"

\* the tile points in play under LiveSpec
LivePoints == {Pt(-1, -1)}

LiveNext ==
    \/ \E p \in LivePoints : get(p) /\ NoTick /\ NoHistory /\ NoLight
    \/ \E p \in LivePoints : get_option(p) /\ NoTick /\ NoHistory /\ NoLight
    \/ \E p \in LivePoints : read(p) /\ NoTick /\ NoHistory /\ NoLight
    \/ \E w \in WorldPositions : read_rounded(w) /\ NoTick /\ NoHistory /\ NoLight
    \/ \E p \in LivePoints, v \in Items : write(p, v) /\ NoTick /\ NoHistory /\ NoLight
    \/ \E n \in InitRadii : init(n) /\ NoTick /\ NoHistory /\ NoLight
    \/ \E fs \in FocusLists : data_map_load_unload_system(fs) /\ NoTick /\ NoHistory /\ NoLight
    \/ data_map_spawn_tasks_system /\ NoTick /\ NoHistory /\ NoLight
    \/ \E done \in CompletedSets :
          data_map_process_completed_tasks_system(done) /\ NoTick /\ NoHistory /\ NoLight

\* the job of entity e finishes and a merge pass polls it
job_completes(e) ==
    \E done \in CompletedSets :
        e \in done /\ data_map_process_completed_tasks_system(done) /\ NoTick /\ NoHistory /\ NoLight

\* a spawn pass of the Update schedule
spawn_pass == data_map_spawn_tasks_system /\ NoTick /\ NoHistory /\ NoLight

LiveSpec ==
    /\ LiveInit
    /\ [][LiveNext]_vars
    /\ WF_vars(spawn_pass)
    /\ \A e \in Entities : WF_vars(job_completes(e))

\* The tick schedule of insert_chunked_plugin and of
\* insert_chunked_double_buffered_plugin: the loader, spawn and merge systems
\* are added to Update as a plain tuple, with no ordering between them, so
\* the executor runs each once per tick in an order of its choosing;
\* swap_map_buffers_system is added to PostUpdate, which runs after Update.
\* Systems of the game call get and write at any point of the tick; init runs
\* once at Startup.
UpdateSystems == {"load_unload", "spawn", "merge"}

\* the systems of `tick`, as a set
ran == {tick[i] : i \in 1 .. Len(tick)}

\* a system of the Update schedule that has not run in this tick runs
tick_system(name) ==
    /\ name \notin ran
    /\ "swap" \notin ran
    /\ tick' = Append(tick, name)
    /\ NoLight
    /\ NoHistory

\* PostUpdate: the swap system runs once Update is over
tick_swap ==
    /\ UpdateSystems \subseteq ran
    /\ "swap" \notin ran
    /\ swap_buffers
    /\ tick' = Append(tick, "swap")
    /\ NoLight
    /\ NoHistory

\* the tick is over and the next one begins
tick_end ==
    /\ UpdateSystems \subseteq ran
    /\ variant = "double" => "swap" \in ran
    /\ tick' = <<>>
    /\ NoLight
    /\ NoHistory
    /\ UNCHANGED <<variant, loaded_chunks, read_buffer, write_buffer,
                   requested_chunks, pending_tasks, write_queue, tasks, last,
                   written_unloaded, unswapped>>

\* Startup runs before the first tick
at_startup == last.op = "new" /\ tick = <<>>

TickNext ==
    \/ \E n \in InitRadii : at_startup /\ init(n) /\ NoTick /\ NoHistory /\ NoLight
    \/ \E n \in InitRadii : at_startup /\ db_init(n) /\ NoTick /\ NoHistory /\ NoLight
    \/ \E p \in LivePoints : get(p) /\ NoTick /\ NoHistory /\ NoLight
    \/ \E p \in LivePoints : db_get(p) /\ NoTick /\ NoHistory /\ NoLight
    \/ \E p \in LivePoints, v \in Items : write(p, v) /\ NoTick /\ NoHistory /\ NoLight
    \/ \E p \in LivePoints, v \in Items : db_write(p, v) /\ NoTick /\ NoHistory /\ NoLight
    \/ \E fs \in FocusLists :
          data_map_load_unload_system(fs) /\ tick_system("load_unload")
    \/ \E fs \in FocusLists :
          data_map_db_load_unload_system(fs) /\ tick_system("load_unload")
    \/ data_map_spawn_tasks_system /\ tick_system("spawn")
    \/ \E done \in CompletedSets :
          data_map_process_completed_tasks_system(done) /\ tick_system("merge")
    \/ \E done \in CompletedSets :
          db_process_completed_tasks_system(done) /\ tick_system("merge")
    \/ tick_swap
    \/ tick_end

TickSpec == Init /\ [][TickNext]_vars


\* The address arithmetic of get, read and write as a computation of its
\* own: the chunk of a tile point by from_point and the local coordinates
\* by the formula of DataMap and by that of DataMapDoubleBuffered, for tile
\* points around zero and around the integers an f32 no longer holds, and
\* for the chunk dimensions 1 .. MaxDim.
MaxTile == 6
MaxDim == 4

ArithTiles == (-MaxTile .. MaxTile) \cup {FarX, FarX + 1, -FarX - 1, -FarX}

ArithPoints == {Pt(x, y) : x \in ArithTiles, y \in ArithTiles}

\* chunk_coords, local_x and local_y as get computes them
locate(point, dim) ==
    /\ last' = Observe("locate",
                       [point |-> point,
                        dim |-> dim,
                        chunk |-> from_point(point, dim),
                        local |-> Pt(local_coord(point.x, dim),
                                     local_coord(point.y, dim)),
                        db_local |-> Pt(rem_euclid(point.x, dim),
                                        rem_euclid(point.y, dim))])
    /\ UNCHANGED <<variant, loaded_chunks, read_buffer, write_buffer,
                   requested_chunks, pending_tasks, write_queue, tasks,
                   written_unloaded, unswapped>>

ArithInit == Init /\ variant = "single"

ArithNext == \E p \in ArithPoints, d \in 1 .. MaxDim : locate(p, d) /\ NoTick /\ NoHistory /\ NoLight

ArithSpec == ArithInit /\ [][ArithNext]_vars


\* FlatGrid on its own: a grid is built and then read and written cell by
\* cell, in and out of bounds.  The grid and what the last call was given
\* and returned are kept in the observer: grid is the grid after the call,
\* before the grid the call found, result what get_item or get_item_mut
\* returned, ok what set_item returned, fault whether the call panicked.
\* Dimensions are 1 .. MaxGridDim and 2^16, the first whose square is no
\* u32.
MaxGridDim == 2

GridDims == (1 .. MaxGridDim) \cup {Half}

\* coordinates in bounds and the first two out of bounds
GridCoords(dim) == IF dim < Half THEN 0 .. dim + 1 ELSE {0, 1, dim, dim + 1}

GridOps == {"FlatGrid_new", "get_item", "get_item_mut", "set_item"}

GridCall(op, grid, before, x, y, item, result, ok, fault) ==
    Observe(op, [grid |-> grid, before |-> before, x |-> x, y |-> y,
                 item |-> item, result |-> result, ok |-> ok,
                 fault |-> fault])

\* a grid exists and the program has not panicked
has_grid == last.op \in GridOps /\ ~last.arg.fault

\* the dimension of the grid in hand
grid_dimension == IF last.op \in GridOps THEN last.arg.grid.dimension ELSE 0

grid_frame ==
    UNCHANGED <<variant, loaded_chunks, read_buffer, write_buffer,
                requested_chunks, pending_tasks, write_queue, tasks,
                written_unloaded, unswapped>>

\* FlatGrid::new without overflow checks
grid_new(dim) ==
    /\ last.op = "new"
    /\ LET grid == FlatGrid_new(dim, default_value)
       IN  last' = GridCall("FlatGrid_new", grid, grid, None, None, None,
                            None, TRUE, FALSE)
    /\ grid_frame

\* FlatGrid::new with overflow checks, for a dimension whose square
\* overflows: the multiplication panics and no grid is built
grid_new_checked(dim) ==
    /\ last.op = "new"
    /\ square_overflows(dim)
    /\ LET none == [data |-> <<>>, dimension |-> 0]
       IN  last' = GridCall("FlatGrid_new", none, none, None, None, None,
                            None, FALSE, TRUE)
    /\ grid_frame

grid_get_item(x, y) ==
    /\ has_grid
    /\ LET grid == last.arg.grid
           fault == index_faults(grid, x, y)
       IN  last' = GridCall("get_item", grid, grid, x, y, None,
                            IF fault THEN None ELSE get_item(grid, x, y),
                            ~fault, fault)
    /\ grid_frame

grid_get_item_mut(x, y) ==
    /\ has_grid
    /\ LET grid == last.arg.grid
           fault == index_faults(grid, x, y)
       IN  last' = GridCall("get_item_mut", grid, grid, x, y, None,
                            IF fault THEN None ELSE get_item_mut(grid, x, y),
                            ~fault, fault)
    /\ grid_frame

grid_set_item(x, y, item) ==
    /\ has_grid
    /\ LET grid == last.arg.grid
           fault == index_faults(grid, x, y)
       IN  last' = GridCall("set_item",
                            IF fault THEN grid ELSE set_item(grid, x, y, item),
                            grid, x, y, item, None,
                            ~fault /\ set_item_result(grid, x, y), fault)
    /\ grid_frame

GridInit == Init /\ variant = "single"

GridNext ==
    \/ \E d \in GridDims : grid_new(d) /\ NoTick /\ NoHistory /\ NoLight
    \/ \E d \in GridDims : grid_new_checked(d) /\ NoTick /\ NoHistory /\ NoLight
    \/ \E x, y \in GridCoords(grid_dimension) :
          grid_get_item(x, y) /\ NoTick /\ NoHistory /\ NoLight
    \/ \E x, y \in GridCoords(grid_dimension) :
          grid_get_item_mut(x, y) /\ NoTick /\ NoHistory /\ NoLight
    \/ \E x, y \in GridCoords(grid_dimension), v \in Items :
          grid_set_item(x, y, v) /\ NoTick /\ NoHistory /\ NoLight

GridSpec == GridInit /\ [][GridNext]_vars

---------------------------------------------------------------------------
(* The light simulator over its lights map: setup_overlay at Startup, the  *)
(* overlay following the camera in Update, run_lights_simulation in        *)
(* PostUpdate, and the lights map filled by init, the spawn and merge      *)
(* passes and writes                                                       *)

\* overlay translations in halves of a world unit: 0, -0.5, -1, -16, -17,
\* 16 and 24.5 units
Translations ==
    {Pt(0, 0), Pt(-1, -2), Pt(-2, 0), Pt(-32, -32), Pt(-34, 32), Pt(49, -2)}

LightInit == Init /\ variant = "single"

LightNext ==
    \/ setup_overlay /\ NoTick /\ NoHistory
    \/ \E t \in Translations : overlay_texture_follow_camera(t) /\ NoTick /\ NoHistory
    \/ run_lights_simulation /\ NoTick /\ NoHistory
    \/ \E p \in LivePoints, v \in Items : write(p, v) /\ NoTick /\ NoHistory /\ NoLight
    \/ \E n \in InitRadii : init(n) /\ NoTick /\ NoHistory /\ NoLight
    \/ data_map_spawn_tasks_system /\ NoTick /\ NoHistory /\ NoLight
    \/ \E done \in CompletedSets :
          data_map_process_completed_tasks_system(done) /\ NoTick /\ NoHistory /\ NoLight

LightSpec == LightInit /\ [][LightNext]_vars

---------------------------------------------------------------------------
(* LightingBuffers on its own: init, cells assigned through the public     *)
(* fields, swap_buffers_clear_write                                        *)

MaxSeed == 4

\* the energy a deposit with seed k leaves in the cell c of direction d
seeded(k, d, c) == <<(k + d) % 4, (k * (c[1] + 1)) % 3, (k + c[2]) % 2>>

buffers_frame ==
    UNCHANGED <<variant, loaded_chunks, read_buffer, write_buffer,
                requested_chunks, pending_tasks, write_queue, tasks,
                written_unloaded, unswapped, texture_world_position>>

\* buffer.init(write_size)
buffers_init(write_size) ==
    /\ buffer' = LightingBuffers_init(write_size)
    /\ last' = Observe("LightingBuffers_init", buffer)
    /\ buffers_frame

\* buffer.write[dir][x][y] = energy, for every cell of every direction
buffers_deposit(k) ==
    /\ buffer.initialized
    /\ buffer' = [buffer EXCEPT !.write =
                     [d \in Directions |->
                         [c \in DOMAIN buffer.write[d] |-> seeded(k, d, c)]]]
    /\ last' = Observe("deposit", buffer)
    /\ buffers_frame

\* buffer.swap_buffers_clear_write()
buffers_swap ==
    /\ buffer' = swap_buffers_clear_write(buffer)
    /\ last' = Observe("swap_buffers_clear_write", buffer)
    /\ buffers_frame

BufferInit == Init /\ variant = "single"

BufferNext ==
    \/ \E n \in 0 .. LIGHTING_OVERLAY_TILES : buffers_init(n) /\ NoTick /\ NoHistory
    \/ \E k \in 1 .. MaxSeed : buffers_deposit(k) /\ NoTick /\ NoHistory
    \/ buffers_swap /\ NoTick /\ NoHistory

BufferSpec == BufferInit /\ [][BufferNext]_vars

---------------------------------------------------------------------------
(* The single-buffered map behind the shared-reveal loader, which never    *)
(* evicts, followed by the history observer: the last write to each point  *)
(* that found its chunk loaded                                             *)

\* history after write(point, value)
noted_write(point, value, chunks) ==
    [history EXCEPT
        !.written[point] =
            IF from_point(point, chunk_dimension_tiles) \in DOMAIN chunks
            THEN value ELSE None,
        !.swapped[point] = FALSE]

PipelineInit == Init /\ variant = "single"

PipelineNext ==
    \/ \E p \in Points : get(p) /\ NoTick /\ NoLight /\ NoHistory
    \/ \E p \in Points : get_option(p) /\ NoTick /\ NoLight /\ NoHistory
    \/ \E p \in Points : read(p) /\ NoTick /\ NoLight /\ NoHistory
    \/ \E p \in Points, v \in Items :
          /\ write(p, v) /\ NoTick /\ NoLight
          /\ history' = noted_write(p, v, loaded_chunks)
    \/ \E fs \in FocusLists :
          data_map_load_unload_system(fs) /\ NoTick /\ NoLight /\ NoHistory
    \/ data_map_spawn_tasks_system /\ NoTick /\ NoLight /\ NoHistory
    \/ \E done \in CompletedSets :
          /\ data_map_process_completed_tasks_system(done)
          /\ NoTick /\ NoLight /\ NoHistory

PipelineSpec == PipelineInit /\ [][PipelineNext]_vars

---------------------------------------------------------------------------
(* The double-buffered map followed by the history observer: the last      *)
(* write to each point that was applied to a chunk of write_buffer, until  *)
(* the chunk is evicted or generated again, and whether a swap came after  *)
(* it.  The loader sees up to MaxFocuses MapRevealActor entities.          *)

MaxFocuses == 2

FocusGroups == UNION {[1 .. n -> FocusPositions] : n \in 0 .. MaxFocuses}

\* history after a step that took the coordinates of gone out of
\* write_buffer or put newly generated chunks for them into it
noted_replaced(gone) ==
    [history EXCEPT
        !.written = [p \in Points |->
                        IF from_point(p, chunk_dimension_tiles) \in gone
                        THEN None ELSE @[p]]]

\* history after swap_buffers
noted_swap ==
    [history EXCEPT
        !.swapped = [p \in Points |-> history.written[p] # None]]

DoubleInit == Init /\ variant = "double"

DoubleSpecNext ==
    \/ \E p \in PointsOf("double") :
          db_get(p) /\ NoTick /\ NoLight /\ NoHistory
    \/ \E p \in PointsOf("double") :
          db_read(p) /\ NoTick /\ NoLight /\ NoHistory
    \/ \E p \in PointsOf("double"), v \in Items :
          /\ db_write(p, v) /\ NoTick /\ NoLight
          /\ history' = noted_write(p, v, write_buffer)
    \/ \E fs \in FocusGroups :
          /\ data_map_db_load_unload_system(fs) /\ NoTick /\ NoLight
          /\ history' =
                noted_replaced(DOMAIN write_buffer \ DOMAIN write_buffer')
    \/ data_map_spawn_tasks_system /\ NoTick /\ NoLight /\ NoHistory
    \/ \E done \in CompletedSets :
          /\ db_process_completed_tasks_system(done) /\ NoTick /\ NoLight
          /\ history' = noted_replaced({tasks[e] : e \in done})
    \/ swap_buffers /\ NoTick /\ NoLight /\ history' = noted_swap

DoubleSpec == DoubleInit /\ [][DoubleSpecNext]_vars

---------------------------------------------------------------------------
(* The double-buffered pipeline on its tick schedule with one stationary   *)
(* MapRevealActor and no get or write calls, followed by the history       *)
(* observer: what read_buffer held when the tick began, and the number of  *)
(* jobs spawned for each coordinate                                        *)

\* the most jobs per coordinate the observer counts
MaxJobs == 2

\* the focus that never moves: its chunk is (-1,-1)
StationaryFocus == <<Pt(-1, -1)>>

\* the spawn pass as a system of the tick, counted by the observer
stationary_spawn ==
    /\ \A c \in spawn_set : history.spawned[c] < MaxJobs
    /\ data_map_spawn_tasks_system
    /\ "spawn" \notin ran
    /\ "swap" \notin ran
    /\ tick' = Append(tick, "spawn")
    /\ history' = [history EXCEPT
                      !.spawned = [c \in Coords |->
                                      IF c \in spawn_set THEN @[c] + 1
                                      ELSE @[c]]]
    /\ NoLight

\* the tick is over: the observer keeps what read_buffer holds as the next
\* tick begins
stationary_tick_end ==
    /\ UpdateSystems \subseteq ran
    /\ "swap" \in ran
    /\ tick' = <<>>
    /\ history' = [history EXCEPT !.start_read = DOMAIN read_buffer]
    /\ NoLight
    /\ UNCHANGED <<variant, loaded_chunks, read_buffer, write_buffer,
                   requested_chunks, pending_tasks, write_queue, tasks, last,
                   written_unloaded, unswapped>>

StationaryInit == Init /\ variant = "double"

StationaryNext ==
    \/ \E n \in InitRadii :
          at_startup /\ db_init(n) /\ NoTick /\ NoLight /\ NoHistory
    \/ data_map_db_load_unload_system(StationaryFocus)
          /\ tick_system("load_unload")
    \/ stationary_spawn
    \/ \E done \in CompletedSets :
          db_process_completed_tasks_system(done) /\ tick_system("merge")
    \/ tick_swap
    \/ stationary_tick_end

StationarySpec == StationaryInit /\ [][StationaryNext]_vars

---------------------------------------------------------------------------
(* Direction: the neighbours the light simulator propagates to.  A         *)
(* direction is its discriminant (N = 0, NE = 1, E = 2, SE = 3, S = 4,     *)
(* SW = 5, W = 6, NW = 7), a cell is <<x, y>> with usize coordinates.      *)

\* the largest window coordinate in play, next to 10, the one of the
\* documented examples
MaxCell == 4

CellCoords == (0 .. MaxCell) \cup {10}

\* usize::saturating_sub
saturating_sub(a, b) == IF a >= b THEN a - b ELSE 0

is_orthogonal(dir) == dir \in {0, 2, 4, 6}

is_diagonal(dir) == dir \in {1, 3, 5, 7}

get_direct_next_point(dir, x, y) ==
    CASE dir = 0 -> <<x, saturating_sub(y, 1)>>
      [] dir = 1 -> <<x + 1, saturating_sub(y, 1)>>
      [] dir = 2 -> <<x + 1, y>>
      [] dir = 3 -> <<x + 1, y + 1>>
      [] dir = 4 -> <<x, y + 1>>
      [] dir = 5 -> <<saturating_sub(x, 1), y + 1>>
      [] dir = 6 -> <<saturating_sub(x, 1), y>>
      [] dir = 7 -> <<saturating_sub(x, 1), saturating_sub(y, 1)>>

\* (Option<Direction>, Option<Direction>)
orthogonal_components(dir) ==
    CASE dir = 0 -> <<0, None>>
      [] dir = 2 -> <<2, None>>
      [] dir = 4 -> <<4, None>>
      [] dir = 6 -> <<6, None>>
      [] dir = 1 -> <<0, 2>>
      [] dir = 3 -> <<4, 2>>
      [] dir = 5 -> <<4, 6>>
      [] dir = 7 -> <<0, 6>>

\* a get_next_from that sends a diagonal to the diagonal cell
C38_next_from_direct(dir, x, y) ==
    <<get_direct_next_point(dir, x, y), get_direct_next_point(dir, x, y)>>

get_next_from(dir, x, y) ==
    CASE dir = 0 -> LET next_y == saturating_sub(y, 1)
                    IN  <<<<x, next_y>>, <<x, next_y>>>>
      [] dir = 4 -> LET next_y == y + 1
                    IN  <<<<x, next_y>>, <<x, next_y>>>>
      [] dir = 2 -> LET next_x == x + 1
                    IN  <<<<next_x, y>>, <<next_x, y>>>>
      [] dir = 6 -> LET next_x == saturating_sub(x, 1)
                    IN  <<<<next_x, y>>, <<next_x, y>>>>
      [] dir = 1 -> LET north == <<x, saturating_sub(y, 1)>>
                        east == <<x + 1, y>>
                    IN  <<north, east>>
      [] dir = 3 -> LET south == <<x, y + 1>>
                        east == <<x + 1, y>>
                    IN  <<south, east>>
      [] dir = 5 -> LET south == <<x, y + 1>>
                        west == <<saturating_sub(x, 1), y>>
                    IN  <<south, west>>
      [] dir = 7 -> LET north == <<x, saturating_sub(y, 1)>>
                        west == <<saturating_sub(x, 1), y>>
                    IN  <<north, west>>

\* dir.get_next_from(x, y) is called
next_from(dir, x, y) ==
    /\ last' = Observe("get_next_from",
                       [dir |-> dir, x |-> x, y |-> y,
                        result |-> get_next_from(dir, x, y)])
    /\ UNCHANGED <<variant, loaded_chunks, read_buffer, write_buffer,
                   requested_chunks, pending_tasks, write_queue, tasks,
                   written_unloaded, unswapped>>

DirectionInit == Init /\ variant = "single"

DirectionNext ==
    \E dir \in Directions, x, y \in CellCoords :
        next_from(dir, x, y) /\ NoTick /\ NoLight /\ NoHistory

DirectionSpec == DirectionInit /\ [][DirectionNext]_vars


---------------------------------------------------------------------------
(* Claims                                                                  *)

\* the chunk a tile point belongs to, as the map computes it
chunk_of(point) == from_point(point, chunk_dimension_tiles)

\* C1: single-buffered map, in every reachable state no chunk coordinate is
\* in more than one of requested_chunks, pending_tasks and loaded_chunks.
\* The program breaks it: get, get_option and write request a chunk that is
\* not loaded without looking at pending_tasks, and the merge pass loads a
\* chunk without taking it out of requested_chunks.
C1_MutuallyExclusive ==
    variant = "single" =>
        \A c \in Coords :
            /\ ~(c \in requested_chunks /\ c \in DOMAIN pending_tasks)
            /\ ~(c \in requested_chunks /\ c \in DOMAIN loaded_chunks)
            /\ ~(c \in DOMAIN pending_tasks /\ c \in DOMAIN loaded_chunks)

\* C2: in either variant a coordinate has at most one in-flight job,
\* pending_tasks has an entry for a coordinate exactly when a job for it is
\* in flight (and the entry is that job), and a step that does not complete
\* the job of a pending coordinate leaves the coordinate pending with the
\* same single job.
C2_OneJobPerCoord ==
    /\ [](\A c \in Coords :
            /\ Cardinality(jobs_for(c)) <= 1
            /\ c \in DOMAIN pending_tasks <=> jobs_for(c) # {}
            /\ c \in DOMAIN pending_tasks => jobs_for(c) = {pending_tasks[c]})
    /\ [][\A c \in DOMAIN pending_tasks :
            pending_tasks[c] \in DOMAIN tasks' =>
                /\ c \in DOMAIN pending_tasks'
                /\ pending_tasks'[c] = pending_tasks[c]
                /\ jobs_for(c)' = jobs_for(c)]_vars

\* C2 witness: a spawn pass of the double-buffered map has just dropped a
\* request because the coordinate's job is still in flight.
C2_Witness ==
    /\ variant = "double"
    /\ last.op = "spawn"
    /\ \E c \in last.arg : c \in DOMAIN pending_tasks /\ jobs_for(c) # {}

C4_QueueDisjointFromLoaded ==
    variant = "single" =>
        \A p \in DOMAIN write_queue : chunk_of(p) \notin DOMAIN loaded_chunks

\* C5: double-buffered map, once write(p, A) has run the result of read(p)
\* stays what it was before the write until swap_buffers runs, and right
\* after that swap read(p) returns A.  The program breaks both halves: read
\* looks at write_queue before read_buffer, so a write that misses is visible
\* at once, and a loader pass may evict the written chunk before the swap.
C5_WriteInvisibleUntilSwap ==
    /\ [][\A p \in Points :
            (variant = "double" /\ unswapped'[p] # None)
                => db_read_value(p)' = db_read_value(p)]_vars
    /\ [][\A p \in Points :
            (swap_buffers /\ unswapped[p] # None)
                => db_read_value(p)' = unswapped[p]]_vars

\* C6: double-buffered map, a step other than swap_buffers leaves the result
\* of read(p) unchanged for every point p.  The program breaks it: a write
\* that misses, a write that hits a queued point and the flush of the merge
\* pass change write_queue, which read consults first.
C6_ReadStableBetweenSwaps ==
    [][(variant = "double" /\ ~swap_buffers)
        => \A p \in Points : db_read_value(p)' = db_read_value(p)]_vars

\* C7, as stated: while p's chunk is not loaded, every get(p) returns the
\* producer's default value, and neither a get nor a spawn pass gives the
\* chunk a second job.  The first half fails when a write to p is queued:
\* get returns the queued value.
C7_RepeatedGet_AsStated ==
    [][\A p \in Points :
        (/\ variant = "single"
         /\ chunk_of(p) \notin DOMAIN loaded_chunks
         /\ (get(p) \/ data_map_spawn_tasks_system))
        => /\ get(p) => get_value(p) = default_value
           /\ Cardinality(jobs_for(chunk_of(p))') <= 1
           /\ jobs_for(chunk_of(p)) # {}
                 => jobs_for(chunk_of(p))' = jobs_for(chunk_of(p))]_vars

\* C7, amended: while p's chunk is not loaded, neither a get(p) nor a spawn
\* pass gives the chunk a second job, and every get(p) returns the producer's
\* default value provided no write to p is queued (with one queued, get
\* returns the queued value).
C7_RepeatedGet ==
    [][\A p \in Points :
        (/\ variant = "single"
         /\ chunk_of(p) \notin DOMAIN loaded_chunks
         /\ (get(p) \/ data_map_spawn_tasks_system))
        => /\ get(p) => get_value(p) =
                 IF p \in DOMAIN write_queue THEN write_queue[p]
                 ELSE default_value
           /\ Cardinality(jobs_for(chunk_of(p))') <= 1
           /\ jobs_for(chunk_of(p)) # {}
                 => jobs_for(chunk_of(p))' = jobs_for(chunk_of(p))]_vars

\* C7 witness: get has just run again on a point with no queued write whose
\* chunk is not loaded and has its job in flight.
C7_Witness ==
    /\ variant = "single"
    /\ last.op = "get"
    /\ last.arg \notin DOMAIN write_queue
    /\ chunk_of(last.arg) \notin DOMAIN loaded_chunks
    /\ chunk_of(last.arg) \in requested_chunks
    /\ Cardinality(jobs_for(chunk_of(last.arg))) = 1

\* C8: single-buffered map, when p is not in write_queue and its chunk is
\* not loaded, get(p) returns the default value, get_option(p) returns None,
\* and either call puts the chunk into requested_chunks and leaves
\* loaded_chunks, pending_tasks and write_queue unchanged.
C8_MissRequests ==
    [][\A p \in Points :
        (/\ variant = "single"
         /\ p \notin DOMAIN write_queue
         /\ chunk_of(p) \notin DOMAIN loaded_chunks
         /\ (get(p) \/ get_option(p)))
        => /\ get_value(p) = default_value
           /\ get_option_value(p) = None
           /\ chunk_of(p) \in requested_chunks'
           /\ UNCHANGED <<loaded_chunks, pending_tasks, write_queue>>]_vars

\* C8 witness: get_option has just missed on a point that nothing had
\* requested, queued or started a job for.
C8_Witness ==
    /\ variant = "single"
    /\ last.op = "get_option"
    /\ last.arg \notin DOMAIN write_queue
    /\ requested_chunks = {chunk_of(last.arg)}
    /\ loaded_chunks = Empty
    /\ pending_tasks = Empty

\* C9: read and read_rounded of both variants leave requested_chunks,
\* pending_tasks, write_queue and the chunk storage unchanged.
C9_ReadsArePure ==
    [][(\/ \E p \in Points : read(p) \/ db_read(p)
        \/ \E w \in WorldPositions : read_rounded(w) \/ db_read_rounded(w))
        => UNCHANGED <<requested_chunks, pending_tasks, write_queue,
                       loaded_chunks, read_buffer, write_buffer>>]_vars

\* C9 witness: read has just missed on a point whose chunk is not loaded,
\* and nothing is requested.
C9_Witness ==
    /\ variant = "single"
    /\ last.op = "read"
    /\ read_value(last.arg) = None
    /\ requested_chunks = {}
    /\ DOMAIN loaded_chunks # {}

\* the last operation was a get, get_option or write that missed on chunk c
MissOn(c) ==
    /\ last.op \in {"get", "get_option", "write"}
    /\ chunk_of(last.arg) = c
    /\ c \notin DOMAIN loaded_chunks
    /\ last.op = "write" \/ last.arg \notin DOMAIN write_queue

\* C10: single-buffered map without eviction, when the spawn and merge
\* passes keep running and every job completes, a get, get_option or write
\* that misses on chunk c leads to c being in loaded_chunks.
C10_MissLeadsToLoaded ==
    \A c \in CoordsOf("single") : MissOn(c) ~> (c \in DOMAIN loaded_chunks)

\* C10 witness: a write has just missed on a chunk that has no job yet; the
\* chunk is requested and the write is queued.
C10_Witness ==
    /\ \E c \in CoordsOf("single") :
          /\ MissOn(c)
          /\ c \in requested_chunks
          /\ c \notin DOMAIN pending_tasks
    /\ last.op = "write"
    /\ last.arg \in DOMAIN write_queue

\* C11: double-buffered map, every step other than swap_buffers (write, the
\* loader pass, the spawn pass, the merge pass, and the reads) leaves
\* read_buffer as it was, key set and cells.
C11_ReadBufferFrame ==
    [][(variant = "double" /\ ~swap_buffers) => UNCHANGED read_buffer]_vars

\* C11 witness: a write has just changed a cell of a chunk of write_buffer
\* while read_buffer still holds the chunk with the old cell.
C11_Witness ==
    /\ variant = "double"
    /\ last.op = "write"
    /\ chunk_of(last.arg) \in DOMAIN read_buffer
    /\ chunk_of(last.arg) \in DOMAIN write_buffer
    /\ db_chunk_item(read_buffer[chunk_of(last.arg)], last.arg)
          # db_chunk_item(write_buffer[chunk_of(last.arg)], last.arg)

\* C12: in every tick the loader pass runs before the spawn pass, the spawn
\* pass before the merge pass, and swap_buffers after all three: the systems
\* that ran so far in a tick are a prefix of that order.  The program does
\* not order the three systems of Update, so a tick may start with the spawn
\* or the merge pass.
C12_TickOrder ==
    \E n \in 0 .. 4 :
        tick = SubSeq(<<"load_unload", "spawn", "merge", "swap">>, 1, n)


\* C13: single-buffered map, the life of a coordinate: it enters
\* pending_tasks only in a spawn pass and only if it was in requested_chunks
\* when the pass ran; it enters loaded_chunks only in a merge pass that
\* merges its job, and only if it was in pending_tasks; it leaves
\* loaded_chunks only in a pass of the evicting (per-actor) loader.
C13_Lifecycle ==
    [][variant = "single" =>
        \A c \in Coords :
            /\ (c \notin DOMAIN pending_tasks /\ c \in DOMAIN pending_tasks')
                  => (data_map_spawn_tasks_system /\ c \in requested_chunks)
            /\ (c \notin DOMAIN loaded_chunks /\ c \in DOMAIN loaded_chunks')
                  => /\ c \in DOMAIN pending_tasks
                     /\ \E done \in CompletedSets :
                           /\ data_map_process_completed_tasks_system(done)
                           /\ c \in {tasks[e] : e \in done}
            /\ (c \in DOMAIN loaded_chunks /\ c \notin DOMAIN loaded_chunks')
                  => \E fs \in FocusLists :
                        data_map_load_unload_system_for_player(fs)]_vars

\* a merge pass has just loaded a chunk while another chunk, loaded
\* earlier, has been evicted and is in flight again
C13_Witness ==
    /\ variant = "single"
    /\ last.op = "merge"
    /\ last.arg # {}
    /\ last.arg \subseteq DOMAIN loaded_chunks
    /\ DOMAIN pending_tasks # {}


\* the Chebyshev distance of two chunk coordinates
chebyshev(a, b) ==
    LET dx == IF a.x >= b.x THEN a.x - b.x ELSE b.x - a.x
        dy == IF a.y >= b.y THEN a.y - b.y ELSE b.y - a.y
    IN  IF dx >= dy THEN dx ELSE dy

\* C14: a pass of the evicting loader with exactly one focus: afterwards
\* every key of loaded_chunks is within Chebyshev distance
\* render_distance_chunks of the focus chunk, every coordinate within that
\* distance is in loaded_chunks, pending_tasks or requested_chunks, and what
\* the pass added to requested_chunks was in none of the three before.
C14_EvictingLoaderPass ==
    [][\A fs \in FocusLists :
          (/\ last'.op = "load_unload_for_player"
           /\ Len(fs) = 1
           /\ data_map_load_unload_system_for_player(fs)) =>
             LET focus == from_world_pos(fs[1], chunk_size_units)
             IN  /\ \A c \in DOMAIN loaded_chunks' :
                       chebyshev(c, focus) <= render_distance_chunks
                 /\ \A c \in CoordsOf(variant) :
                       chebyshev(c, focus) <= render_distance_chunks =>
                          \/ c \in DOMAIN loaded_chunks'
                          \/ c \in DOMAIN pending_tasks'
                          \/ c \in requested_chunks'
                 /\ \A c \in requested_chunks' \ requested_chunks :
                       /\ c \notin DOMAIN loaded_chunks
                       /\ c \notin DOMAIN pending_tasks]_vars

\* the pass evicted a chunk and requested another
C14_Witness ==
    /\ last.op = "load_unload_for_player"
    /\ last.arg # {}
    /\ requested_chunks \ last.arg # {}
    /\ \A c \in requested_chunks \ last.arg : c \notin DOMAIN pending_tasks


\* C15: single-buffered map, every step other than a pass of the evicting
\* loader (get, get_option, read, write, init, the shared-reveal loader pass
\* with any focuses, the spawn pass, the merge pass) keeps every key of
\* loaded_chunks.
C15_NoEviction ==
    [][(variant = "single" /\ last'.op # "load_unload_for_player")
          => DOMAIN loaded_chunks \subseteq DOMAIN loaded_chunks']_vars

\* the shared-reveal loader has just run and requested the chunk at its
\* focus, and a loaded chunk outside every focus square is still loaded
C15_Witness ==
    /\ variant = "single"
    /\ last.op = "load_unload"
    /\ chunk_of(Pt(-1, -1)) \in requested_chunks
    /\ chunk_of(Pt(FarX, -1)) \in DOMAIN loaded_chunks


\* the chunk storage the merge pass inserts into
storage == IF variant = "single" THEN loaded_chunks ELSE write_buffer

\* the merge pass of the map's variant
merge_pass(completed_tasks) ==
    \/ data_map_process_completed_tasks_system(completed_tasks)
    \/ db_process_completed_tasks_system(completed_tasks)

C17_LastWriteWins ==
    [][\A p \in Points :
          variant = "single" =>
             /\ (/\ last'.op = "write"
                 /\ last'.arg = p
                 /\ p \in DOMAIN write_queue
                 /\ chunk_of(p) \notin DOMAIN loaded_chunks)
                   => \E v \in Items :
                         /\ write(p, v)
                         /\ p \in DOMAIN write_queue'
                         /\ write_queue'[p] = v
                         /\ get_value(p)' = v
                         /\ get_option_value(p)' = v
                         /\ read_value(p)' = v
             /\ (/\ last'.op = "merge"
                 /\ written_unloaded[p] # None
                 /\ chunk_of(p) \notin DOMAIN loaded_chunks
                 /\ chunk_of(p) \in DOMAIN loaded_chunks')
                   => chunk_item(loaded_chunks'[chunk_of(p)], p)
                         = written_unloaded[p]]_vars


C19_EvictionRoundTrip ==
    [][\A c \in CoordsOf("single") :
          variant = "single" =>
             /\ \A fs \in {f \in FocusLists :
                             /\ last.op = "load_unload_for_player"
                             /\ last'.op = "load_unload_for_player"
                             /\ Len(f) = 1} :
                   (/\ c \in last.arg
                    /\ data_map_load_unload_system_for_player(fs)
                    /\ chebyshev(c, from_world_pos(fs[1], chunk_size_units))
                          <= render_distance_chunks)
                      => c \in requested_chunks'
             /\ (last'.op = "spawn" /\ c \in requested_chunks)
                   => /\ c \in DOMAIN pending_tasks'
                      /\ jobs_for(c)' # {}
             /\ (/\ last'.op = "merge"
                 /\ c \notin DOMAIN loaded_chunks
                 /\ c \in DOMAIN loaded_chunks'
                 /\ \A p \in DOMAIN write_queue : chunk_of(p) # c)
                   => loaded_chunks'[c]
                         = generate_chunk(c, chunk_dimension_tiles)]_vars


\* C20: for a tile point p and a chunk dimension d > 0, on each axis the
\* chunk c of from_point(p, d) and the local coordinate l satisfy
\* c*d <= p < c*d + d, 0 <= l < d and p = c*d + l, and the formula
\* ((p % d) + d) % d of DataMap gives the l of rem_euclid of
\* DataMapDoubleBuffered.  The program breaks the chunk part beyond the
\* integers an f32 holds exactly: p = -16777217 with d = 1 gives
\* c = -16777216, so c*d > p.
C20_ChunkArithmetic ==
    last.op = "locate" =>
        LET p == last.arg.point
            d == last.arg.dim
            c == last.arg.chunk
            l == last.arg.local
        IN  /\ c.x * d <= p.x /\ p.x < c.x * d + d
            /\ c.y * d <= p.y /\ p.y < c.y * d + d
            /\ 0 <= l.x /\ l.x < d
            /\ 0 <= l.y /\ l.y < d
            /\ p.x = c.x * d + l.x
            /\ p.y = c.y * d + l.y
            /\ l = last.arg.db_local


\* the chunks a map holds: loaded_chunks, or the two buffers
held_chunks ==
    IF variant = "single" THEN DOMAIN loaded_chunks
    ELSE DOMAIN read_buffer \cup DOMAIN write_buffer

C22_SpawnPass ==
    [][(last'.op = "spawn" /\ data_map_spawn_tasks_system) =>
          /\ requested_chunks' = {}
          /\ requested_chunks \subseteq DOMAIN pending_tasks'
          /\ \A c \in DOMAIN pending_tasks :
                /\ c \in DOMAIN pending_tasks'
                /\ pending_tasks'[c] = pending_tasks[c]
                /\ pending_tasks[c] \in DOMAIN tasks'
                /\ tasks'[pending_tasks[c]] = tasks[pending_tasks[c]]]_vars

\* the spawn pass has just dropped a request for a pending coordinate and
\* started a job for another
C22_Witness ==
    /\ variant = "single"
    /\ last.op = "spawn"
    /\ last.arg # {}
    /\ requested_chunks = {}
    /\ Cardinality(DOMAIN pending_tasks) >= 2


\* C23: swap_buffers exchanges the two buffers: the new read_buffer is the
\* old write_buffer and the new write_buffer the old read_buffer;
\* requested_chunks, pending_tasks and write_queue stay as they were; and a
\* second swap, which makes write_buffer' the read buffer and read_buffer'
\* the write buffer, brings back the buffers of before the first.
C23_SwapExchanges ==
    [][(last'.op = "swap_buffers" /\ swap_buffers) =>
          /\ read_buffer' = write_buffer
          /\ write_buffer' = read_buffer
          /\ UNCHANGED <<requested_chunks, pending_tasks, write_queue, tasks>>
          /\ LET twice == [read_buffer |-> write_buffer',
                           write_buffer |-> read_buffer']
             IN  /\ twice.read_buffer = read_buffer
                 /\ twice.write_buffer = write_buffer]_vars

\* the buffers have just been swapped and differ, with a job in flight and
\* a write queued
C23_Witness ==
    /\ last.op = "swap_buffers"
    /\ DOMAIN read_buffer # {}
    /\ read_buffer # write_buffer
    /\ DOMAIN pending_tasks # {}
    /\ DOMAIN write_queue # {}


\* C24: a FlatGrid of dimension d, and a call with x >= d or y >= d:
\* get_item and get_item_mut return None, set_item returns false and leaves
\* every cell of the grid as it was, and none of the calls panics.
C24_OutOfBounds ==
    (/\ last.op \in {"get_item", "get_item_mut", "set_item"}
     /\ \/ last.arg.x >= last.arg.before.dimension
        \/ last.arg.y >= last.arg.before.dimension)
        => /\ ~last.arg.fault
           /\ last.op \in {"get_item", "get_item_mut"}
                 => last.arg.result = None
           /\ last.op = "set_item"
                 => /\ ~last.arg.ok
                    /\ last.arg.grid = last.arg.before

\* set_item has just been refused for an x in bounds and a y out of bounds,
\* on a grid that holds a cell written earlier
C24_Witness ==
    /\ last.op = "set_item"
    /\ last.arg.x < last.arg.before.dimension
    /\ last.arg.y >= last.arg.before.dimension
    /\ ~last.arg.ok
    /\ \E i \in DOMAIN last.arg.grid.data :
          last.arg.grid.data[i] # default_value

\* C25: a FlatGrid of dimension d, and set_item(x, y, v) with x < d and
\* y < d: the call returns true without panicking, get_item(x, y) on the
\* grid it leaves returns v, every other cell in bounds reads as before,
\* and the dimension is unchanged.  The program breaks it for d = 2^16:
\* FlatGrid::new computes dimension * dimension in u32, which without
\* overflow checks is 0, so the grid has no cells and set_item(0, 0, v)
\* indexes an empty vector.
C25_SetThenGet ==
    (/\ last.op = "set_item"
     /\ last.arg.x < last.arg.before.dimension
     /\ last.arg.y < last.arg.before.dimension)
        => /\ ~last.arg.fault
           /\ last.arg.ok
           /\ last.arg.grid.dimension = last.arg.before.dimension
           /\ get_item(last.arg.grid, last.arg.x, last.arg.y) = last.arg.item
           /\ \A x, y \in 0 .. last.arg.before.dimension - 1 :
                 <<x, y>> # <<last.arg.x, last.arg.y>> =>
                    get_item(last.arg.grid, x, y)
                       = get_item(last.arg.before, x, y)


C27_SimulatorOnlyReads ==
    [][run_lights_simulation =>
          /\ requested_chunks' \subseteq requested_chunks
          /\ UNCHANGED <<loaded_chunks, pending_tasks, write_queue>>]_vars

\* the simulator has run over a window with a cell that read misses, on a
\* lights map that holds a loaded chunk, a job in flight and a queued write
C27_Witness ==
    /\ last.op = "run_lights_simulation"
    /\ \E c \in WindowCells(LIGHTING_OVERLAY_TILES) :
          read_value(tile_position(last.arg.position, c)) = None
    /\ \E c \in WindowCells(LIGHTING_OVERLAY_TILES) :
          read_value(tile_position(last.arg.position, c)) # None
    /\ DOMAIN loaded_chunks # {}
    /\ DOMAIN pending_tasks # {}
    /\ DOMAIN write_queue # {}
    /\ requested_chunks = {}

\* C28: after the seeding phase of run_lights_simulation (the window scan
\* and the buffer swap that follows it), every window cell whose lights-map
\* cell holds an emitter has that emitter's per-channel energy in each of
\* the 8 directional read buffers, and every other window cell has zero there
C28_SeededEnergy ==
    last.op = "run_lights_simulation" =>
        \A c \in WindowCells(LIGHTING_OVERLAY_TILES), d \in Directions :
            LET light == center_tile_lightdata(last.arg.position, c)
            IN  /\ \A energy \in light : buffer.read[d][c] = energy
                /\ light = {} => buffer.read[d][c] = dark

\* C29: after LightingBuffers::swap_buffers_clear_write each of the 8
\* directional read buffers equals the write buffer of the same direction
\* from before the call, every cell of every write buffer is [0, 0, 0], and
\* the dimensions of the buffers are what they were
C29_SwapClearsWrite ==
    last.op = "swap_buffers_clear_write" =>
        \A d \in Directions :
            /\ buffer.read[d] = last.arg.write[d]
            /\ \A c \in DOMAIN buffer.write[d] : buffer.write[d][c] = dark
            /\ DOMAIN buffer.read[d] = DOMAIN last.arg.read[d]
            /\ DOMAIN buffer.write[d] = DOMAIN last.arg.write[d]

\* the swap has run on buffers of the window's size whose read and write
\* sides both held energy, different from one direction to the next
C29_Witness ==
    /\ last.op = "swap_buffers_clear_write"
    /\ DOMAIN last.arg.write[0] = WindowCells(LIGHTING_OVERLAY_TILES)
    /\ \E c \in DOMAIN last.arg.read[0] : last.arg.read[0][c] # dark
    /\ \E c \in DOMAIN last.arg.write[0] : last.arg.write[0][c] # dark
    /\ last.arg.write[0] # last.arg.write[1]
    /\ last.arg.write # last.arg.read
    /\ buffer.read = last.arg.write

\* C30: the window centre tile of the light simulator is floor(w / 16) on
\* each axis for every integer overlay world position w, negative included
C30_CentreTileFloor ==
    last.op = "run_lights_simulation" =>
        LET position == last.arg.position
        IN  /\ position.x % 2 = 0 =>
                  last.arg.center_tile.x
                     = (position.x \div 2) \div TILE_SIZE_IN_UNITS_UNITS
            /\ position.y % 2 = 0 =>
                  last.arg.center_tile.y
                     = (position.y \div 2) \div TILE_SIZE_IN_UNITS_UNITS

\* C31: single-buffered map behind the loader that never evicts: once
\* write(p, v) found the chunk of p loaded, read(p) returns v in every later
\* state until the next write to p, whatever get, get_option, write, loader,
\* spawn and merge steps come in between
C31_LoadedWriteSticks ==
    \A p \in Points :
        history.written[p] # None => read_value(p) = history.written[p]

\* C32: single-buffered map, the spawn pass never starts a generation job
\* for a coordinate that is in loaded_chunks when the pass runs, whatever
\* get, get_option and write calls and loader, spawn and merge passes came
\* before
C32_NoJobForLoaded ==
    [][variant = "single" =>
          \A c \in Coords :
              (c \in DOMAIN pending_tasks' /\ c \notin DOMAIN pending_tasks)
                  => c \notin DOMAIN loaded_chunks]_vars

\* C33: double-buffered map, once write(p, v) was applied to a chunk of
\* write_buffer, and as long as no later write to p came and the chunk was
\* neither evicted nor generated again, read(p) returns v after the next
\* swap_buffers and after every later one
C33_WriteSurvivesSwaps ==
    \A p \in Points :
        (variant = "double" /\ history.written[p] # None /\ history.swapped[p])
            => db_read_value(p) = history.written[p]

\* C34: double-buffered pipeline with one stationary focus and no get or
\* write calls: a required chunk coordinate that read_buffer holds when a
\* tick begins is held by read_buffer when the next tick begins, and so at
\* the start of every later tick, whenever the jobs complete
C34_ReadBufferKeepsRequired ==
    [][(tick # <<>> /\ tick' = <<>>) =>
          (history.start_read \cap required_chunks_set(StationaryFocus[1]))
              \subseteq DOMAIN read_buffer']_vars

\* C35: double-buffered pipeline with one stationary focus and no get or
\* write calls: over the whole run at most one generation job is spawned
\* for each chunk coordinate
C35_OneJobEver ==
    \A c \in Coords : history.spawned[c] <= 1

\* C36: double-buffered loader driven by several MapRevealActor focuses: a
\* loader pass never removes from write_buffer a chunk that lies within
\* render_distance_chunks (Chebyshev) of at least one of the focuses
C36_LoaderKeepsNearChunks ==
    [][\A fs \in FocusGroups :
          (Len(fs) >= 2 /\ data_map_db_load_unload_system(fs)) =>
              \A c \in DOMAIN write_buffer :
                  (\E i \in 1 .. Len(fs) :
                      chebyshev(c, from_world_pos(fs[i], chunk_size_units))
                          <= render_distance_chunks)
                      => c \in DOMAIN write_buffer']_vars

\* C37: Direction::get_next_from never reports the source cell as its own
\* neighbour: for every direction and every cell (x, y) each of the two
\* returned coordinates differs from (x, y)
C37_NeighbourIsNotSource ==
    last.op = "get_next_from" =>
        \A i \in 1 .. 2 : last.arg.result[i] # <<last.arg.x, last.arg.y>>

\* C38: Direction::get_next_from(x, y): for an orthogonal direction both
\* entries equal get_direct_next_point(x, y); for a diagonal direction the
\* entries are the direct next points of its two orthogonal_components, in
\* that order; N from (10,10) gives [(10,9),(10,9)], NE [(10,9),(11,10)] and
\* SW [(10,11),(9,10)]
C38_NextFromComponents ==
    last.op = "get_next_from" =>
        LET dir == last.arg.dir
            x == last.arg.x
            y == last.arg.y
            parts == orthogonal_components(dir)
        IN  /\ is_orthogonal(dir) =>
                  last.arg.result = <<get_direct_next_point(dir, x, y),
                                      get_direct_next_point(dir, x, y)>>
            /\ is_diagonal(dir) =>
                  last.arg.result = <<get_direct_next_point(parts[1], x, y),
                                      get_direct_next_point(parts[2], x, y)>>
            /\ (x = 10 /\ y = 10 /\ dir = 0) =>
                  last.arg.result = <<<<10, 9>>, <<10, 9>>>>
            /\ (x = 10 /\ y = 10 /\ dir = 1) =>
                  last.arg.result = <<<<10, 9>>, <<11, 10>>>>
            /\ (x = 10 /\ y = 10 /\ dir = 5) =>
                  last.arg.result = <<<<10, 11>>, <<9, 10>>>>

\* SW was asked for the neighbours of (10, 10)
C38_Witness ==
    /\ last.op = "get_next_from"
    /\ last.arg.dir = 5
    /\ last.arg.x = 10
    /\ last.arg.y = 10
    /\ last.arg.result = <<<<10, 11>>, <<9, 10>>>>

====
